---- MODULE Spec2Model ----
(***************************************************************************)
(* HyperANF over HyperLogLog counters (kekeblom/hyper-anf).                *)
(*                                                                         *)
(* src/src/hyperloglog.rs : the sketch (registers behind Arc<RwLock<..>>)  *)
(* src/src/main.rs        : the graph, the two counter tables and the      *)
(*                          propagation loop of main                       *)
(*                                                                         *)
(* A u64 is a sequence of 64 bits, most significant bit first (TLC's       *)
(* integers are 32 bits wide).  A HashMap is its keys in iteration order   *)
(* and the value of each.  The register vectors live in `heap`, indexed by *)
(* the identity of the Arc that owns them.                                 *)
(***************************************************************************)
EXTENDS Integers, Sequences, FiniteSets, TLC

VARIABLES
    hasher,            \* DefaultHasher: identifier -> which of HashValues it hashes to
    b,                 \* Arguments.b, the precision handed to every sketch
    graph,             \* Graph.nodes: node -> neighbour list
    prev_counters,     \* node -> HyperLogLog
    current_counters,  \* node -> HyperLogLog
    heap,              \* Arc identity -> Vec<u8> of registers
    t,                 \* the round counter of main (u8)
    pc,                \* position of main: export/round/advance/done/panic
    task,              \* round step: node -> index of its next neighbour
    set_done,          \* set_values: the zipped pairs already copied
    export_log,        \* the tags t handed to write_counters, in order
    export_result,     \* what the last write_counters returned
    last_exported,     \* the registers write_counters last read, per node
    round_prev,        \* the registers of prev_counters when the round began
    wrote,             \* <<task, Arc>> pairs written in this phase
    lab,               \* sketches built directly from element sets
    guards,            \* the RwLock guards the tasks of a parallel phase hold
    checked            \* all_same: <<pair, result>> of the pairs compared

vars == <<hasher, b, graph, prev_counters, current_counters, heap, t, pc, task,
          set_done, export_log, export_result, last_exported, round_prev,
          wrote, lab, guards, checked>>

engine_vars == <<graph, prev_counters, current_counters, heap, t, pc, task,
                 set_done, export_log, export_result, last_exported,
                 round_prev, wrote, guards, checked>>

-----------------------------------------------------------------------------
(* Bounds of the model *)

MaxNode == 3        \* node identifiers are 1..MaxNode
MaxEdges == 2       \* edge lists have at most MaxEdges records
MaxPrecision == 1   \* b ranges over 0..MaxPrecision
PathLen == 257      \* number of nodes of the long path graph
MaxElems == 3       \* elements inserted into the lab sketches: 1..MaxElems
MaxHash == 3        \* Init draws hashes from the first MaxHash of HashValues

(* Program constants *)

HashBits == 64      \* hasher.finish() is a u64
CounterBits == 8    \* let mut t = 0_u8

-----------------------------------------------------------------------------
(* Arithmetic helpers *)

Max(x, y) == IF x >= y THEN x ELSE y

Min(x, y) == IF x <= y THEN x ELSE y

RECURSIVE Pow2(_)
Pow2(n) == IF n = 0 THEN 1 ELSE 2 * Pow2(n - 1)

(* The u64 whose set bits are exactly the positions in `bits` (0 = lowest). *)
U64(bits) == [i \in 1..HashBits |-> IF (HashBits - i) \in bits THEN 1 ELSE 0]

(* hash >> n on a u64 *)
Shr(h, n) == [i \in 1..HashBits |-> IF i <= n THEN 0 ELSE h[i - n]]

(* hash as usize & (m - 1), with m = 2^p: the value of the low p bits *)
RECURSIVE LowBits(_, _)
LowBits(h, n) ==
    IF n = 0 THEN 0
    ELSE h[HashBits - n + 1] * Pow2(n - 1) + LowBits(h, n - 1)

(* u64::leading_zeros *)
leading_zeros(v) ==
    IF \A i \in 1..HashBits : v[i] = 0 THEN HashBits
    ELSE (CHOOSE i \in 1..HashBits : v[i] = 1 /\ \A j \in 1..(i - 1) : v[j] = 0) - 1

(* The 64-bit hashes the model draws from: 2^63, 2^62 + 1, 1 and 2^62.  The
   variable hasher names, for every identifier, one of them by its index. *)
HashValues == <<U64({63}), U64({62, 0}), U64({0}), U64({62})>>

(* hasher.finish() after value.hash(&mut hasher) *)
hash_of(value) == HashValues[hasher[value]]

-----------------------------------------------------------------------------
(* hyperloglog.rs on register vectors *)

(* first_set_bit counting one position too many *)
first_set_bit_wide(value) == leading_zeros(value) + 2

(* HyperLogLog::first_set_bit *)
first_set_bit(value) == leading_zeros(value) + 1

(* HyperLogLog::new: m = 1 << p registers, all 0 *)
new_registers(p) == [i \in 1..Pow2(p) |-> 0]

(* add: let index = hash as usize & (self.m - 1), with m = 2^p *)
add_index(p, m, hash) == LowBits(hash, p)

(* add: let first_bit = self.first_set_bit(hash >> self.p) *)
add_first_bit(p, hash) == first_set_bit(Shr(hash, p))

(* HyperLogLog::add on the register vector: index from the low bits, rank
   from the leading zeros of hash >> p, register raised to the rank *)
add_registers(regs, p, m, hash) ==
    LET index == add_index(p, m, hash)
        first_bit == add_first_bit(p, hash)
    IN  IF regs[index + 1] < first_bit
        THEN [regs EXCEPT ![index + 1] = first_bit]
        ELSE regs

(* union taking the smaller register instead of the larger *)
union_registers_min(self, other) ==
    [i \in 1..Len(self) |->
        IF i <= Len(other) THEN Min(self[i], other[i]) ELSE self[i]]

(* union overwriting the register instead of taking the larger *)
union_registers_assign(self, other) ==
    [i \in 1..Len(self) |-> IF i <= Len(other) THEN other[i] ELSE self[i]]

(* the zip of union: pointwise max over the common prefix *)
union_registers(self, other) ==
    [i \in 1..Len(self) |->
        IF i <= Len(other) THEN Max(self[i], other[i]) ELSE self[i]]

(* the zip of set_registers: copy over the common prefix *)
copy_registers(self, other) ==
    [i \in 1..Len(self) |-> IF i <= Len(other) THEN other[i] ELSE self[i]]

(* the zip of eq: all pairs of the common prefix equal *)
eq_registers(self, other) ==
    \A i \in 1..Min(Len(self), Len(other)) : self[i] = other[i]

(* hyperloglog.rs on sketches whose registers are behind an Arc *)

hll_new(p, arc) == [p |-> p, m |-> Pow2(p), registers |-> arc]

hll_add(h, self, value) ==
    [h EXCEPT ![self.registers] =
        add_registers(h[self.registers], self.p, self.m, hash_of(value))]

hll_union(h, self, other) ==
    [h EXCEPT ![self.registers] =
        union_registers(h[self.registers], h[other.registers])]

hll_set_registers(h, self, other) ==
    [h EXCEPT ![self.registers] =
        copy_registers(h[self.registers], h[other.registers])]

hll_eq(h, self, other) == eq_registers(h[self.registers], h[other.registers])

(* a clone that shares the Arc of the original *)
hll_clone_shared(self, arc) == [p |-> self.p, m |-> self.m, registers |-> self.registers]

(* Clone for HyperLogLog: a new Arc holding a copy of the vector *)
hll_clone(self, arc) == [p |-> self.p, m |-> self.m, registers |-> arc]

-----------------------------------------------------------------------------
(* main.rs: a HashMap is [order, at]: its keys in iteration order, and the
   value each key maps to *)

empty_map == [order |-> <<>>, at |-> <<>>]

keys(map) == DOMAIN map.at

contains_key(map, k) == k \in DOMAIN map.at

(* HashMap::get(..).unwrap(), for a key that is present *)
get(map, k) == map.at[k]

(* HashMap::insert of a key that is vacant: it comes last in the order *)
insert(map, k, v) == [order |-> Append(map.order, k), at |-> map.at @@ (k :> v)]

(* HashMap::values(): the values in iteration order *)
values(map) == [i \in 1..Len(map.order) |-> map.at[map.order[i]]]

(* Iterator::zip: pairs up to the shorter of the two *)
zip(xs, ys) == [i \in 1..Min(Len(xs), Len(ys)) |-> <<xs[i], ys[i]>>]

(* add leaving an occupied entry as it is *)
add_vacant_only(nodes, from, to) ==
    IF contains_key(nodes, from)
    THEN nodes
    ELSE insert(nodes, from, <<to>>)

(* add: push `to` on the entry of `from`, creating the entry when vacant *)
add(nodes, from, to) ==
    IF contains_key(nodes, from)
    THEN [nodes EXCEPT !.at[from] = Append(@, to)]
    ELSE insert(nodes, from, <<to>>)

(* Graph::new: fold over the edge list, each edge added in both directions.
   The fold over vertices[lo..hi], left to right, is written by halves, the
   left half evaluated before the right one is entered, to keep the
   evaluation shallow. *)
RECURSIVE graph_fold(_, _, _, _)
graph_fold(acc, vertices, lo, hi) ==
    IF lo > hi THEN acc
    ELSE IF lo = hi
    THEN add(add(acc, vertices[lo][1], vertices[lo][2]),
             vertices[lo][2], vertices[lo][1])
    ELSE LET mid == (lo + hi) \div 2
             left == graph_fold(acc, vertices, lo, mid)
         IN  IF Len(left.order) >= 0 THEN graph_fold(left, vertices, mid + 1, hi)
             ELSE left

Graph_new(vertices) == graph_fold(empty_map, vertices, 1, Len(vertices))

(* Graph::get_nodes: the keys, in the iteration order of the map *)
get_nodes(g) == g.order

(* init_counters leaving out the first node *)
init_counters_short(nodes, p) ==
    LET rest == SubSeq(nodes, 2, Len(nodes))
        empty == [i \in 1..Len(rest) |-> new_registers(p)]
    IN  [counters |-> [order |-> rest,
                       at |-> [n \in {rest[i] : i \in 1..Len(rest)} |->
                                 hll_new(p, CHOOSE i \in 1..Len(rest) : rest[i] = n)]],
         heap     |-> [i \in 1..Len(rest) |->
                         hll_add(empty, hll_new(p, i), rest[i])[i]]]

(* init_counters: one sketch per node, created empty and seeded with the
   node itself.  The i-th sketch owns Arc i. *)
init_counters(nodes, p) ==
    LET empty == [i \in 1..Len(nodes) |-> new_registers(p)]
    IN  [counters |-> [order |-> nodes,
                       at |-> [n \in {nodes[i] : i \in 1..Len(nodes)} |->
                                 hll_new(p, CHOOSE i \in 1..Len(nodes) : nodes[i] = n)]],
         heap     |-> [i \in 1..Len(nodes) |->
                         hll_add(empty, hll_new(p, i), nodes[i])[i]]]

(* a clone that iterates in the opposite order *)
clone_counters_reversed(counters, h) ==
    [counters |-> [order |-> [i \in 1..Len(counters.order) |->
                                counters.order[Len(counters.order) + 1 - i]],
                   at |-> [n \in keys(counters) |->
                             hll_clone(counters.at[n],
                                       Len(h) + counters.at[n].registers)]],
     heap     |-> h \o [i \in 1..Len(counters.order) |->
                          h[counters.at[counters.order[i]].registers]]]

(* prev_counters.clone(): the entries keep their buckets, so the clone
   iterates in the order of the original; every value is cloned into a new
   Arc that holds a copy of the registers *)
clone_counters(counters, h) ==
    [counters |-> [order |-> counters.order,
                   at |-> [n \in keys(counters) |->
                             hll_clone(counters.at[n],
                                       Len(h) + counters.at[n].registers)]],
     heap     |-> h \o [i \in 1..Len(counters.order) |->
                          h[counters.at[counters.order[i]].registers]]]

(* the registers of every sketch of a table, by node *)
registers_of(counters, h) ==
    [n \in keys(counters) |-> h[get(counters, n).registers]]

neighbors(n) == get(graph, n)

-----------------------------------------------------------------------------
(* main: the propagation loop *)

(* the registers a task of the round step leaves behind: node n's k-th
   union, current_counters[n].union(prev_counters[neighbor]) *)
task_union(h, n, k) ==
    hll_union(h, get(current_counters, n), get(prev_counters, neighbors(n)[k]))

(* both unwraps of the k-th union of node n succeed *)
task_lookup_ok(n, k) ==
    /\ contains_key(current_counters, n)
    /\ contains_key(prev_counters, neighbors(n)[k])

(* all_same with .any in place of .all *)
all_same_any(h) ==
    LET pairs == zip(values(current_counters), values(prev_counters))
    IN  \E i \in 1..Len(pairs) : hll_eq(h, pairs[i][1], pairs[i][2])

(* all_same: every zipped pair of values compares equal *)
all_same(h) ==
    LET pairs == zip(values(current_counters), values(prev_counters))
    IN  \A i \in 1..Len(pairs) : hll_eq(h, pairs[i][1], pairs[i][2])

(* the pairs of set_values(&prev_counters, &current_counters) *)
set_values_pairs == zip(values(prev_counters), values(current_counters))

(* t += 1 on a u8: the sum when it fits; on overflow a build with overflow
   checks panics and a build without them wraps *)
increment_outcomes(v) ==
    IF v + 1 < Pow2(CounterBits)
    THEN {[pc |-> "export", t |-> v + 1]}
    ELSE {[pc |-> "panic", t |-> v],
          [pc |-> "export", t |-> (v + 1) % Pow2(CounterBits)]}

(* the match on write_counters' result aborting main on Err *)
Export_abort ==
    /\ pc = "export"
    /\ \E r \in {"ok", "err"} :
          /\ export_result' = r
          /\ pc' = IF r = "ok" THEN "round" ELSE "panic"
    /\ export_log' = Append(export_log, t)
    /\ last_exported' = registers_of(current_counters, heap)
    /\ round_prev' = registers_of(prev_counters, heap)
    /\ task' = [n \in keys(graph) |-> 1]
    /\ wrote' = {}
    /\ UNCHANGED <<hasher, b, graph, prev_counters, current_counters, heap, t,
                   set_done, lab,
                   guards, checked>>

(* write_counters(&mut csv_writer, &current_counters, t) and the match on
   its result; then the round's tasks are spawned *)
Export ==
    /\ pc = "export"
    /\ \E r \in {"ok", "err"} : export_result' = r
    /\ export_log' = Append(export_log, t)
    /\ last_exported' = registers_of(current_counters, heap)
    /\ round_prev' = registers_of(prev_counters, heap)
    /\ task' = [n \in keys(graph) |-> 1]
    /\ wrote' = {}
    /\ pc' = "round"
    /\ UNCHANGED <<hasher, b, graph, prev_counters, current_counters, heap, t,
                   set_done, lab,
                   guards, checked>>

(* one union of the task of node n *)
TaskStep(n) ==
    /\ pc = "round"
    /\ task[n] <= Len(neighbors(n))
    /\ IF task_lookup_ok(n, task[n])
       THEN /\ heap' = task_union(heap, n, task[n])
            /\ task' = [task EXCEPT ![n] = @ + 1]
            /\ wrote' = wrote \cup {<<n, get(current_counters, n).registers>>}
            /\ pc' = pc
       ELSE /\ pc' = "panic"
            /\ UNCHANGED <<heap, task, wrote>>
    /\ UNCHANGED <<hasher, b, graph, prev_counters, current_counters, t,
                   set_done, export_log, export_result, last_exported,
                   round_prev, lab,
                   guards, checked>>

(* the for_each has joined; all_same is computed and main breaks or goes on
   to set_values *)
Check ==
    /\ pc = "round"
    /\ \A n \in keys(graph) : task[n] > Len(neighbors(n))
    /\ pc' = IF all_same(heap) THEN "done" ELSE "advance"
    /\ set_done' = {}
    /\ wrote' = {}
    /\ UNCHANGED <<hasher, b, graph, prev_counters, current_counters, heap, t,
                   task, export_log, export_result, last_exported,
                   round_prev, lab,
                   guards, checked>>

(* one pair of set_values: counter_to_set.set_registers(to_copy) *)
SetStep(i) ==
    /\ pc = "advance"
    /\ i \notin set_done
    /\ LET pairs == set_values_pairs
       IN  /\ i \in 1..Len(pairs)
           /\ heap' = hll_set_registers(heap, pairs[i][1], pairs[i][2])
           /\ wrote' = wrote \cup {<<i, pairs[i][1].registers>>}
    /\ set_done' = set_done \cup {i}
    /\ UNCHANGED <<hasher, b, graph, prev_counters, current_counters, t, pc,
                   task, export_log, export_result, last_exported,
                   round_prev, lab,
                   guards, checked>>

(* set_values has joined; t += 1 and the loop goes round *)
Increment ==
    /\ pc = "advance"
    /\ set_done = 1..Len(set_values_pairs)
    /\ \E o \in increment_outcomes(t) : pc' = o.pc /\ t' = o.t
    /\ UNCHANGED <<hasher, b, graph, prev_counters, current_counters, heap,
                   task, set_done, export_log, export_result, last_exported,
                   round_prev, wrote, lab,
                   guards, checked>>

-----------------------------------------------------------------------------
(* The inputs of a run *)

NodeIds == 1..MaxNode

(* the identifiers of an edge list, in reading order *)
flatten(vs) == [j \in 1..(2 * Len(vs)) |-> vs[(j + 1) \div 2][2 - (j % 2)]]

(* An identifier matters only through its hash and through equality with
   other identifiers, and Init draws the hash of every node freely, so edge
   lists are taken up to renaming: each identifier new to the list is the
   least one not used yet. *)
FirstUse(vs) ==
    LET f == flatten(vs)
    IN  \A j \in 1..Len(f) :
            \/ \E i \in 1..(j - 1) : f[i] = f[j]
            \/ f[j] = Cardinality({f[i] : i \in 1..(j - 1)}) + 1

EdgeLists ==
    {vs \in UNION {[1..k -> NodeIds \X NodeIds] : k \in 0..MaxEdges} : FirstUse(vs)}

(* the orders in which a HashMap over the keys S may iterate *)
Orders(S) ==
    {f \in [1..Cardinality(S) -> S] : \A i, j \in DOMAIN f : f[i] = f[j] => i = j}

lab_idle == [phase |-> "idle"]

(* the state of main at the top of its loop, for a given edge list, precision,
   hash function and iteration order of the nodes *)
Start(vertices, p, hf, order) ==
    /\ hasher = hf
    /\ b = p
    /\ graph = Graph_new(vertices)
    /\ LET prev == init_counters(order, p)
           cur  == clone_counters(prev.counters, prev.heap)
       IN  /\ prev_counters = prev.counters
           /\ current_counters = cur.counters
           /\ heap = cur.heap
    /\ t = 0
    /\ pc = "export"
    /\ task = [n \in keys(Graph_new(vertices)) |-> 0]
    /\ set_done = {}
    /\ export_log = <<>>
    /\ export_result = "none"
    /\ last_exported = <<>>
    /\ round_prev = <<>>
    /\ wrote = {}
    /\ lab = lab_idle
    /\ guards = {}
    /\ checked = {}

Init ==
    \E vertices \in EdgeLists, p \in 0..MaxPrecision :
        \E hf \in [keys(Graph_new(vertices)) -> 1..MaxHash],
           order \in Orders(keys(Graph_new(vertices))) :
            Start(vertices, p, hf, order)

Next ==
    \/ Export
    \/ \E n \in keys(graph) : TaskStep(n)
    \/ Check
    \/ \E i \in 1..Len(set_values_pairs) : SetStep(i)
    \/ Increment

Spec == Init /\ [][Next]_vars

-----------------------------------------------------------------------------
(* A run on a long path, with the thread pool reduced to one worker: the
   tasks of a parallel phase then run one after the other, in iteration
   order, and a phase is one step. *)

(* the task of node n from its k-th neighbour on *)
RECURSIVE run_task(_, _, _)
run_task(h, n, k) ==
    IF k > Len(neighbors(n)) THEN h
    ELSE run_task(task_union(h, n, k), n, k + 1)

(* the tasks of the nodes of entries lo..hi of graph.nodes, in order (by
   halves, to keep the evaluation shallow) *)
RECURSIVE run_round(_, _, _)
run_round(h, lo, hi) ==
    IF lo > hi THEN h
    ELSE IF lo = hi THEN run_task(h, graph.order[lo], 1)
    ELSE LET mid == (lo + hi) \div 2
             left == run_round(h, lo, mid)
         IN  IF Len(left) >= 0 THEN run_round(left, mid + 1, hi) ELSE left

(* the pairs lo..hi of set_values, in order *)
RECURSIVE run_set_values(_, _, _, _)
run_set_values(h, pairs, lo, hi) ==
    IF lo > hi THEN h
    ELSE IF lo = hi
    THEN hll_set_registers(h, pairs[lo][1], pairs[lo][2])
    ELSE LET mid == (lo + hi) \div 2
             left == run_set_values(h, pairs, lo, mid)
         IN  IF Len(left) >= 0 THEN run_set_values(left, pairs, mid + 1, hi) ELSE left

(* graph.nodes.par_iter().for_each(..) from spawn to join *)
RunRound ==
    /\ pc = "round"
    /\ \A n \in keys(graph) : task[n] = 1
    /\ IF \A n \in keys(graph) : \A k \in 1..Len(neighbors(n)) : task_lookup_ok(n, k)
       THEN /\ heap' = run_round(heap, 1, Len(graph.order))
            /\ task' = [n \in keys(graph) |-> Len(neighbors(n)) + 1]
            /\ wrote' = {<<n, get(current_counters, n).registers>> : n \in keys(graph)}
            /\ pc' = pc
       ELSE /\ pc' = "panic"
            /\ UNCHANGED <<heap, task, wrote>>
    /\ UNCHANGED <<hasher, b, graph, prev_counters, current_counters, t,
                   set_done, export_log, export_result, last_exported,
                   round_prev, lab,
                   guards, checked>>

(* set_values(&prev_counters, &current_counters) from spawn to join *)
RunSetValues ==
    /\ pc = "advance"
    /\ set_done = {}
    /\ LET pairs == set_values_pairs
       IN  /\ Len(pairs) > 0
           /\ heap' = run_set_values(heap, pairs, 1, Len(pairs))
           /\ set_done' = 1..Len(pairs)
           /\ wrote' = {<<i, pairs[i][1].registers>> : i \in 1..Len(pairs)}
    /\ UNCHANGED <<hasher, b, graph, prev_counters, current_counters, t, pc,
                   task, export_log, export_result, last_exported,
                   round_prev, lab,
                   guards, checked>>

(* the path 1 - 2 - ... - PathLen *)
PathEdges == [i \in 1..(PathLen - 1) |-> <<i, i + 1>>]

(* node 1 hashes to rank 2, every other node to rank 1 *)
PathHasher == [n \in 1..PathLen |-> IF n = 1 THEN 4 ELSE 1]

InitLong == Start(PathEdges, 0, PathHasher, get_nodes(Graph_new(PathEdges)))

NextLong ==
    \/ Export
    \/ RunRound
    \/ Check
    \/ RunSetValues
    \/ Increment

SpecLong == InitLong /\ [][NextLong]_vars

-----------------------------------------------------------------------------
(* Sketches used on their own, as in tests::union: elements are inserted
   into the sketches a, b and c (Arcs 1, 2, 3); every element given to a or
   b is also inserted into the sketch ab (Arc 4).  Merging then computes
   a.union(b), b.union(a), (a.union(b)).union(c) and a.union(b.union(c)) on
   clones (Arcs 5 to 9). *)

Elems == 1..MaxElems

lab_sketch(arc) == hll_new(b, arc)

(* counter.add(x) on the sketch `arc`, and on ab when the element counts for
   the union of a and b *)
LabAdd(arc, x) ==
    /\ lab.phase = "build"
    /\ x \notin lab.added[arc]
    /\ LET h1 == hll_add(lab.heap, lab_sketch(arc), x)
           h2 == IF arc \in {1, 2} THEN hll_add(h1, lab_sketch(4), x) ELSE h1
       IN  lab' = [lab EXCEPT !.heap = h2,
                              !.added[arc] = @ \cup {x}]
    /\ UNCHANGED <<hasher, b>>
    /\ UNCHANGED engine_vars

(* a clone of the sketch `from` placed in Arc `to` *)
lab_clone(h, from, to) == [h EXCEPT ![hll_clone(lab_sketch(from), to).registers] = h[from]]

(* the unions, each on a fresh clone of its target *)
lab_merge(h) ==
    LET h5 == hll_union(lab_clone(h, 1, 5), lab_sketch(5), lab_sketch(2))
        h6 == hll_union(lab_clone(h5, 2, 6), lab_sketch(6), lab_sketch(1))
        h7 == hll_union(lab_clone(h6, 5, 7), lab_sketch(7), lab_sketch(3))
        h8 == hll_union(lab_clone(h7, 2, 8), lab_sketch(8), lab_sketch(3))
        h9 == hll_union(lab_clone(h8, 1, 9), lab_sketch(9), lab_sketch(8))
    IN  h9

LabMerge ==
    /\ lab.phase = "build"
    /\ lab' = [lab EXCEPT !.phase = "merged", !.heap = lab_merge(lab.heap)]
    /\ UNCHANGED <<hasher, b>>
    /\ UNCHANGED engine_vars

(* main has not been started *)
EngineIdle ==
    /\ graph = empty_map
    /\ prev_counters = empty_map
    /\ current_counters = empty_map
    /\ heap = <<>>
    /\ t = 0
    /\ pc = "idle"
    /\ task = <<>>
    /\ set_done = {}
    /\ export_log = <<>>
    /\ export_result = "none"
    /\ last_exported = <<>>
    /\ round_prev = <<>>
    /\ wrote = {}
    /\ guards = {}
    /\ checked = {}

InitSketch ==
    /\ hasher \in [Elems -> 1..MaxHash]
    /\ b \in 0..MaxPrecision
    /\ lab = [phase |-> "build",
              added |-> [arc \in 1..3 |-> {}],
              heap  |-> [arc \in 1..9 |-> new_registers(b)]]
    /\ EngineIdle

NextSketch ==
    \/ \E arc \in 1..3, x \in Elems : LabAdd(arc, x)
    \/ LabMerge

SpecSketch == InitSketch /\ [][NextSketch]_vars

-----------------------------------------------------------------------------
(* std::sync::RwLock.  A guard is [holder, arc, mode]: the thread or task
   holding it, the Arc whose lock it is, and "w" or "r".  Locking a lock the
   caller itself holds is left open by the library: write-then-read and
   write-then-write block forever or panic, read-then-read goes through or
   panics.  Otherwise a lock taken by another holder makes the caller wait. *)

write_outcomes(gs, holder, arc) ==
    IF \E g \in gs : g.arc = arc /\ g.holder = holder
    THEN {"deadlock", "panic"}
    ELSE IF \E g \in gs : g.arc = arc THEN {"wait"} ELSE {"ok"}

read_outcomes(gs, holder, arc) ==
    IF \E g \in gs : g.arc = arc /\ g.holder = holder /\ g.mode = "w"
    THEN {"deadlock", "panic"}
    ELSE IF \E g \in gs : g.arc = arc /\ g.holder = holder
    THEN {"ok", "panic"}
    ELSE IF \E g \in gs : g.arc = arc /\ g.mode = "w" THEN {"wait"} ELSE {"ok"}

guard(holder, arc, mode) == [holder |-> holder, arc |-> arc, mode |-> mode]

(* self.registers.write() followed by other.registers.read(), as in union
   and set_registers, by a thread holding nothing else *)
write_read_outcomes(self, other) ==
    read_outcomes({guard("main", self.registers, "w")}, "main", other.registers)

(* self.registers.read() followed by other.registers.read(), as in eq *)
read_read_outcomes(self, other) ==
    read_outcomes({guard("main", self.registers, "r")}, "main", other.registers)

-----------------------------------------------------------------------------
(* Two sketches x and y (Arcs 1 and 2) used through the public operations,
   each with a precision of its own: add, union, set_registers, ==, and
   y = x.clone() or x = y.clone().  lab.last records the last call: the
   operation, its receiver and argument, the register storage before it, how
   it ended, and for add the index and rank it computed, for == its value.
   A call that does not return ends the run. *)

api_sketch(s) == hll_new(lab.p[s], s)

api_last(op, self, other, outcome, value, index, rank, equal) ==
    [op |-> op, self |-> self, other |-> other, p |-> lab.p,
     before |-> lab.heap, outcome |-> outcome, value |-> value,
     index |-> index, rank |-> rank, equal |-> equal]

ApiAdd(s, x) ==
    /\ lab.phase = "api"
    /\ lab' = [lab EXCEPT
                 !.heap = hll_add(lab.heap, api_sketch(s), x),
                 !.last = api_last("add", s, s, "ok", x,
                                   add_index(lab.p[s], Pow2(lab.p[s]), hash_of(x)),
                                   add_first_bit(lab.p[s], hash_of(x)), FALSE)]
    /\ UNCHANGED <<hasher, b>>
    /\ UNCHANGED engine_vars

ApiUnion(s, o) ==
    /\ lab.phase = "api"
    /\ \E out \in write_read_outcomes(api_sketch(s), api_sketch(o)) :
          lab' = [lab EXCEPT
                    !.phase = IF out = "ok" THEN "api" ELSE "stopped",
                    !.heap = IF out = "ok"
                             THEN hll_union(lab.heap, api_sketch(s), api_sketch(o))
                             ELSE lab.heap,
                    !.last = api_last("union", s, o, out, 0, 0, 0, FALSE)]
    /\ UNCHANGED <<hasher, b>>
    /\ UNCHANGED engine_vars

ApiSetRegisters(s, o) ==
    /\ lab.phase = "api"
    /\ \E out \in write_read_outcomes(api_sketch(s), api_sketch(o)) :
          lab' = [lab EXCEPT
                    !.phase = IF out = "ok" THEN "api" ELSE "stopped",
                    !.heap = IF out = "ok"
                             THEN hll_set_registers(lab.heap, api_sketch(s), api_sketch(o))
                             ELSE lab.heap,
                    !.last = api_last("set_registers", s, o, out, 0, 0, 0, FALSE)]
    /\ UNCHANGED <<hasher, b>>
    /\ UNCHANGED engine_vars

ApiEq(s, o) ==
    /\ lab.phase = "api"
    /\ \E out \in read_read_outcomes(api_sketch(s), api_sketch(o)) :
          lab' = [lab EXCEPT
                    !.phase = IF out = "ok" THEN "api" ELSE "stopped",
                    !.last = api_last("eq", s, o, out, 0, 0, 0,
                                      out = "ok" /\ hll_eq(lab.heap, api_sketch(s),
                                                           api_sketch(o)))]
    /\ UNCHANGED <<hasher, b>>
    /\ UNCHANGED engine_vars

(* o = s.clone(): the sketch o becomes a copy of s, precision included *)
ApiClone(s, o) ==
    /\ lab.phase = "api"
    /\ s # o
    /\ lab' = [lab EXCEPT
                 !.p[o] = hll_clone(api_sketch(s), o).p,
                 !.heap[hll_clone(api_sketch(s), o).registers] = lab.heap[s],
                 !.last = api_last("clone", s, o, "ok", 0, 0, 0, FALSE)]
    /\ UNCHANGED <<hasher, b>>
    /\ UNCHANGED engine_vars

InitApi ==
    /\ hasher \in [Elems -> 1..MaxHash]
    /\ b \in 0..MaxPrecision
    /\ \E p2 \in 0..MaxPrecision :
          lab = [phase |-> "api",
                 p     |-> <<b, p2>>,
                 heap  |-> <<new_registers(b), new_registers(p2)>>,
                 last  |-> [op |-> "none"]]
    /\ EngineIdle

NextApi ==
    \/ \E s \in 1..2, x \in Elems : ApiAdd(s, x)
    \/ \E s, o \in 1..2 : ApiUnion(s, o)
    \/ \E s, o \in 1..2 : ApiSetRegisters(s, o)
    \/ \E s, o \in 1..2 : ApiEq(s, o)
    \/ \E s, o \in 1..2 : ApiClone(s, o)

SpecApi == InitApi /\ [][NextApi]_vars

-----------------------------------------------------------------------------
(* main with every parallel phase taken lock by lock.  A task of the round
   step holds the guards of node n, a task of all_same or of set_values those
   of the pair i it works on.  A task that has to wait, or that blocks for
   good, takes no step; a panic inside a task aborts main.  Both guards of a
   call are temporaries of one statement and are dropped together. *)

held(holder) == {g \in guards : g.holder = holder}

release(holder) == guards \ held(holder)

(* registers.write() by holder on arc: the guard is taken, or main aborts;
   a holder that waits or blocks takes no step *)
AcquireWrite(holder, arc) ==
    \E out \in write_outcomes(guards, holder, arc) \cap {"ok", "panic"} :
        /\ guards' = IF out = "ok" THEN guards \cup {guard(holder, arc, "w")} ELSE guards
        /\ pc' = IF out = "ok" THEN pc ELSE "panic"

(* registers.read() by holder on arc *)
AcquireRead(holder, arc) ==
    \E out \in read_outcomes(guards, holder, arc) \cap {"ok", "panic"} :
        /\ guards' = IF out = "ok" THEN guards \cup {guard(holder, arc, "r")} ELSE guards
        /\ pc' = IF out = "ok" THEN pc ELSE "panic"

(* node_counter.union(..): the lookups, then self.registers.write() *)
TaskLockWrite(n) ==
    /\ pc = "round"
    /\ task[n] <= Len(neighbors(n))
    /\ held(n) = {}
    /\ IF task_lookup_ok(n, task[n])
       THEN AcquireWrite(n, get(current_counters, n).registers)
       ELSE pc' = "panic" /\ guards' = guards
    /\ UNCHANGED <<hasher, b, graph, prev_counters, current_counters, heap, t,
                   task, set_done, export_log, export_result, last_exported,
                   round_prev, wrote, lab, checked>>

(* union: other.registers.read() *)
TaskLockRead(n) ==
    /\ pc = "round"
    /\ task[n] <= Len(neighbors(n))
    /\ Cardinality(held(n)) = 1
    /\ AcquireRead(n, get(prev_counters, neighbors(n)[task[n]]).registers)
    /\ UNCHANGED <<hasher, b, graph, prev_counters, current_counters, heap, t,
                   task, set_done, export_log, export_result, last_exported,
                   round_prev, wrote, lab, checked>>

(* union: the for_each over the zipped registers, and both guards dropped *)
TaskUnion(n) ==
    /\ pc = "round"
    /\ task[n] <= Len(neighbors(n))
    /\ Cardinality(held(n)) = 2
    /\ heap' = task_union(heap, n, task[n])
    /\ task' = [task EXCEPT ![n] = @ + 1]
    /\ wrote' = wrote \cup {<<n, get(current_counters, n).registers>>}
    /\ guards' = release(n)
    /\ UNCHANGED <<hasher, b, graph, prev_counters, current_counters, t, pc,
                   set_done, export_log, export_result, last_exported,
                   round_prev, lab, checked>>

(* the for_each of the round step has joined; the tasks of all_same are
   spawned *)
RoundJoin ==
    /\ pc = "round"
    /\ \A n \in keys(graph) : task[n] > Len(neighbors(n))
    /\ pc' = "check"
    /\ checked' = {}
    /\ wrote' = {}
    /\ UNCHANGED <<hasher, b, graph, prev_counters, current_counters, heap, t,
                   task, set_done, export_log, export_result, last_exported,
                   round_prev, lab, guards>>

(* the zipped pairs of all_same *)
all_same_pairs == zip(values(current_counters), values(prev_counters))

(* c.0 == c.1: self.registers.read() *)
EqLockSelf(i) ==
    /\ pc = "check"
    /\ i \in 1..Len(all_same_pairs)
    /\ \A c \in checked : c[1] # i
    /\ held(i) = {}
    /\ AcquireRead(i, all_same_pairs[i][1].registers)
    /\ UNCHANGED <<hasher, b, graph, prev_counters, current_counters, heap, t,
                   task, set_done, export_log, export_result, last_exported,
                   round_prev, wrote, lab, checked>>

(* c.0 == c.1: other.registers.read() *)
EqLockOther(i) ==
    /\ pc = "check"
    /\ i \in 1..Len(all_same_pairs)
    /\ Cardinality(held(i)) = 1
    /\ AcquireRead(i, all_same_pairs[i][2].registers)
    /\ UNCHANGED <<hasher, b, graph, prev_counters, current_counters, heap, t,
                   task, set_done, export_log, export_result, last_exported,
                   round_prev, wrote, lab, checked>>

(* c.0 == c.1: the comparison, and both guards dropped *)
EqCompare(i) ==
    /\ pc = "check"
    /\ i \in 1..Len(all_same_pairs)
    /\ Cardinality(held(i)) = 2
    /\ checked' = checked \cup
          {<<i, hll_eq(heap, all_same_pairs[i][1], all_same_pairs[i][2])>>}
    /\ guards' = release(i)
    /\ UNCHANGED <<hasher, b, graph, prev_counters, current_counters, heap, t,
                   pc, task, set_done, export_log, export_result,
                   last_exported, round_prev, wrote, lab>>

(* .all(..) has joined: every pair was compared, or a pair compared unequal
   and the pairs not yet started were skipped; main breaks or goes on to
   set_values *)
CheckJoin ==
    /\ pc = "check"
    /\ guards = {}
    /\ \/ \A i \in 1..Len(all_same_pairs) : \E c \in checked : c[1] = i
       \/ \E c \in checked : ~c[2]
    /\ pc' = IF \A c \in checked : c[2] THEN "done" ELSE "advance"
    /\ set_done' = {}
    /\ wrote' = {}
    /\ UNCHANGED <<hasher, b, graph, prev_counters, current_counters, heap, t,
                   task, export_log, export_result, last_exported,
                   round_prev, lab, guards, checked>>

(* counter_to_set.set_registers(to_copy): self.registers.write() *)
SetLockWrite(i) ==
    /\ pc = "advance"
    /\ i \in 1..Len(set_values_pairs)
    /\ i \notin set_done
    /\ held(i) = {}
    /\ AcquireWrite(i, set_values_pairs[i][1].registers)
    /\ UNCHANGED <<hasher, b, graph, prev_counters, current_counters, heap, t,
                   task, set_done, export_log, export_result, last_exported,
                   round_prev, wrote, lab, checked>>

(* set_registers: other.registers.read() *)
SetLockRead(i) ==
    /\ pc = "advance"
    /\ i \in 1..Len(set_values_pairs)
    /\ Cardinality(held(i)) = 1
    /\ AcquireRead(i, set_values_pairs[i][2].registers)
    /\ UNCHANGED <<hasher, b, graph, prev_counters, current_counters, heap, t,
                   task, set_done, export_log, export_result, last_exported,
                   round_prev, wrote, lab, checked>>

(* set_registers: the copy, and both guards dropped *)
SetCopy(i) ==
    /\ pc = "advance"
    /\ i \in 1..Len(set_values_pairs)
    /\ Cardinality(held(i)) = 2
    /\ LET pairs == set_values_pairs
       IN  /\ heap' = hll_set_registers(heap, pairs[i][1], pairs[i][2])
           /\ wrote' = wrote \cup {<<i, pairs[i][1].registers>>}
    /\ set_done' = set_done \cup {i}
    /\ guards' = release(i)
    /\ UNCHANGED <<hasher, b, graph, prev_counters, current_counters, t, pc,
                   task, export_log, export_result, last_exported,
                   round_prev, lab, checked>>

NextLocks ==
    \/ Export
    \/ \E n \in keys(graph) : TaskLockWrite(n)
    \/ \E n \in keys(graph) : TaskLockRead(n)
    \/ \E n \in keys(graph) : TaskUnion(n)
    \/ RoundJoin
    \/ \E i \in 1..Len(all_same_pairs) : EqLockSelf(i)
    \/ \E i \in 1..Len(all_same_pairs) : EqLockOther(i)
    \/ \E i \in 1..Len(all_same_pairs) : EqCompare(i)
    \/ CheckJoin
    \/ \E i \in 1..Len(set_values_pairs) : SetLockWrite(i)
    \/ \E i \in 1..Len(set_values_pairs) : SetLockRead(i)
    \/ \E i \in 1..Len(set_values_pairs) : SetCopy(i)
    \/ Increment

(* Which lock a task asks for depends on the Arcs and on the number of
   rounds, not on the register values themselves nor on the order in which
   the tables iterate: the runs start with b = 0, with every node hashing
   to rank 1 or to rank 2, and with the nodes in the order of their first
   appearance. *)
LockHashes == {1, 4}

InitLocks ==
    \E vertices \in EdgeLists :
        \E hf \in [keys(Graph_new(vertices)) -> LockHashes] :
            Start(vertices, 0, hf, get_nodes(Graph_new(vertices)))

(* every task that can take a step is eventually run *)
SpecLocks == InitLocks /\ [][NextLocks]_vars /\ WF_vars(NextLocks)

-----------------------------------------------------------------------------
(* Vocabulary of the properties *)

cur_regs(n) == heap[get(current_counters, n).registers]

prev_regs(n) == heap[get(prev_counters, n).registers]

cur_arcs == {get(current_counters, n).registers : n \in keys(current_counters)}

prev_arcs == {get(prev_counters, n).registers : n \in keys(prev_counters)}

(* the neighbours listed for n *)
NeighbourSet(n) == {neighbors(n)[k] : k \in 1..Len(neighbors(n))}

(* every task of the round step has made its last union *)
RoundComplete ==
    /\ pc = "round"
    /\ \A n \in keys(graph) : task[n] > Len(neighbors(n))

(* the register-wise largest value over a non-empty set of register vectors
   of one length *)
PointwiseMax(vs) ==
    LET any == CHOOSE v \in vs : TRUE
    IN  [i \in 1..Len(any) |->
            CHOOSE x \in {v[i] : v \in vs} : \A v \in vs : x >= v[i]]

(* the sketch a node is seeded with: created empty, the node inserted *)
SeedRegs(n) == add_registers(new_registers(b), b, Pow2(b), hash_of(n))

(* the seed sketches of all nodes, as a table *)
Seeds ==
    LET table == [m \in keys(graph) |-> SeedRegs(m)]
    IN  IF table = table THEN table ELSE table

(* v is register for register at least w *)
Dominates(v, w) == Len(v) = Len(w) /\ \A i \in 1..Len(v) : v[i] >= w[i]

(* Hop distances by breadth-first search.  A search state holds dist, the
   nodes found so far with their distance from the source, and frontier, the
   nodes at distance k. *)
hops_step(g, s) ==
    IF s.frontier = {} THEN s
    ELSE LET next == UNION {{g.at[f][j] : j \in 1..Len(g.at[f])} : f \in s.frontier}
                         \ DOMAIN s.dist
         IN  [dist |-> s.dist @@ [m \in next |-> s.k + 1],
              frontier |-> next,
              k |-> s.k + 1]

(* `steps` steps of the search (by halves, to keep the evaluation shallow) *)
RECURSIVE hops_run(_, _, _)
hops_run(g, s, steps) ==
    IF steps = 0 THEN s
    ELSE IF steps = 1 THEN hops_step(g, s)
    ELSE LET half == steps \div 2
             left == hops_run(g, s, half)
         IN  IF left.k >= 0 THEN hops_run(g, left, steps - half) ELSE left

(* node reachable from n -> number of hops *)
hops_from(g, n) ==
    hops_run(g, [dist |-> (n :> 0), frontier |-> {n}, k |-> 0],
             Cardinality(keys(g))).dist

(* node -> (node reachable from it -> number of hops), as an explicit table *)
HopsOf(g) ==
    LET table == [n \in keys(g) |-> hops_from(g, n)]
    IN  IF table = table THEN table ELSE table

PathGraph == Graph_new(PathEdges)

(* the hop distances of the long path: between n and m, |n - m| hops *)
PathHops ==
    [n \in 1..PathLen |-> [m \in 1..PathLen |-> IF n >= m THEN n - m ELSE m - n]]

Hops == IF graph = PathGraph THEN PathHops ELSE HopsOf(graph)

(* the nodes within at most k hops of n, H being the table of hop distances *)
Within(H, n, k) == LET d == H[n] IN {m \in DOMAIN d : d[m] <= k}

Connected(H) == \A n \in DOMAIN H : DOMAIN H[n] = DOMAIN H

(* the longest shortest path of a connected graph *)
Diameter(H) ==
    LET ds == {0} \cup {H[n][m] : n \in DOMAIN H, m \in DOMAIN H}
    IN  CHOOSE d \in ds : \A e \in ds : d >= e

-----------------------------------------------------------------------------
(* C1: when the round step has completed, current[n] is, register for
   register, the maximum of previous[n] and previous[m] over the neighbours
   m of n, previous being the table as it stood when the round began. *)
C1_RoundStep ==
    RoundComplete =>
        \A n \in keys(graph) :
            cur_regs(n) =
                PointwiseMax({round_prev[n]} \cup {round_prev[m] : m \in NeighbourSet(n)})

(* a round has completed in which a node with two neighbours got a proper
   merge: its sketch differs from every sketch of the previous table *)
C1_Witness ==
    /\ RoundComplete
    /\ \E n \in keys(graph) :
          /\ Cardinality(NeighbourSet(n) \ {n}) >= 2
          /\ \A m \in keys(graph) : cur_regs(n) # round_prev[m]

(* C3: main leaves the round step for "done" exactly when current[n] and
   previous[n] agree in every register for every node n, and for the advance
   otherwise; it terminates at no other point. *)
C3_ConvergenceCheck ==
    [][ /\ (pc = "round" /\ pc' # "round") =>
            /\ pc' \in {"done", "advance"}
            /\ pc' = "done" <=> \A n \in keys(graph) : cur_regs(n) = prev_regs(n)
        /\ (pc' = "done" /\ pc # "done") => pc = "round" ]_vars

(* the check sent main on although some node's sketch was unchanged *)
C3_Witness ==
    /\ pc = "advance"
    /\ set_done = {}
    /\ \E n \in keys(graph) : cur_regs(n) = prev_regs(n)
    /\ \E n \in keys(graph) : cur_regs(n) # prev_regs(n)

(* C5: no step lowers a register of a current or of a previous sketch. *)
C5_Monotone ==
    [][ \A n \in keys(graph) :
            /\ Dominates(cur_regs(n)', cur_regs(n))
            /\ Dominates(prev_regs(n)', prev_regs(n)) ]_vars

(* a second round has raised a register that the first had raised already *)
C5_Witness ==
    /\ t >= 1
    /\ \E n \in keys(graph) :
          /\ prev_regs(n) # SeedRegs(n)
          /\ cur_regs(n) # prev_regs(n)

(* C7: during a round step every write of a task goes to the current sketch
   of its own node, no sketch is written by two tasks, no previous sketch
   changes, and the two tables share no register storage. *)
C7_RoundWrites ==
    pc = "round" =>
        /\ \A w \in wrote : w[2] = get(current_counters, w[1]).registers
        /\ \A w1, w2 \in wrote : w1[2] = w2[2] => w1[1] = w2[1]
        /\ \A n, m \in keys(current_counters) :
              get(current_counters, n).registers = get(current_counters, m).registers
                  => n = m
        /\ cur_arcs \cap prev_arcs = {}
        /\ \A m \in keys(prev_counters) : prev_regs(m) = round_prev[m]

(* two tasks have written and a third is still running *)
C7_Witness ==
    /\ pc = "round"
    /\ Cardinality(wrote) >= 2
    /\ \E n \in keys(graph) : task[n] <= Len(neighbors(n))
    /\ \E n \in keys(graph) : cur_regs(n) # round_prev[n]

(* C9: when main has terminated, the current table is register for register
   the table that write_counters was last given. *)
C9_FinalReported ==
    pc = "done" => registers_of(current_counters, heap) = last_exported

(* main terminated after at least two advances *)
C9_Witness ==
    /\ pc = "done"
    /\ t >= 2
    /\ \E n \in keys(graph) : cur_regs(n) # SeedRegs(n)

(* C10: the sketch of A unioned with the sketch of B equals, register for
   register, the sketch into which every element of A and of B was inserted;
   the union is the pointwise maximum, and it is commutative and associative
   on registers. *)
C10_UnionOfSets ==
    lab.phase = "merged" =>
        /\ lab.heap[5] = lab.heap[4]
        /\ lab.heap[5] = PointwiseMax({lab.heap[1], lab.heap[2]})
        /\ lab.heap[5] = lab.heap[6]
        /\ lab.heap[7] = lab.heap[9]

(* a and b were given overlapping sets, neither within the other, c is not
   empty, and the union differs from both of its arguments *)
C10_Witness ==
    /\ lab.phase = "merged"
    /\ lab.added[1] \cap lab.added[2] # {}
    /\ lab.added[1] \ lab.added[2] # {}
    /\ lab.added[2] \ lab.added[1] # {}
    /\ lab.added[3] # {}
    /\ lab.heap[5] # lab.heap[1]
    /\ lab.heap[5] # lab.heap[2]
    /\ lab.heap[3] # lab.heap[7]

(* C6 as stated: once set_values has written a previous sketch, every task
   of the round has finished and the current table those tasks produced has
   been exported. *)
C6_Original ==
    (pc = "advance" /\ set_done # {}) =>
        /\ \A n \in keys(graph) : task[n] > Len(neighbors(n))
        /\ last_exported = registers_of(current_counters, heap)

(* C6, amended: a previous sketch changes only during the advance, when
   every task of the round has finished; what has been exported by then,
   tagged t, is the current table as it stood before those tasks ran, and
   the table they produced has not been exported yet. *)
C6_Barrier ==
    [][ (\E n \in keys(graph) : prev_regs(n)' # prev_regs(n)) =>
            /\ pc = "advance"
            /\ \A n \in keys(graph) : task[n] > Len(neighbors(n))
            /\ export_log # <<>>
            /\ export_log[Len(export_log)] = t
            /\ last_exported = round_prev
            /\ last_exported # registers_of(current_counters, heap) ]_vars

(* set_values is under way and has changed a previous sketch *)
C6_Witness ==
    /\ pc = "advance"
    /\ set_done # {}
    /\ set_done # 1..Len(set_values_pairs)
    /\ \E n \in keys(graph) : prev_regs(n) # round_prev[n]

(* C2: on a connected graph main does not abort, and when it has stopped the
   round counter is at most the diameter of the graph. *)
C2_Termination ==
    pc \in {"done", "panic"} =>
        LET H == Hops
        IN  Connected(H) => pc = "done" /\ t <= Diameter(H)

(* C4: the table exported for round t holds, for every node n, the union of
   the seed sketches of the nodes within at most t hops of n; when main has
   terminated, current[n] is the union of the seed sketches of the connected
   component of n. *)
C4_NeighbourhoodFunction ==
    /\ (pc = "round" /\ export_log # <<>>) =>
          LET H == Hops
              seeds == Seeds
              tag == export_log[Len(export_log)]
          IN  \A n \in keys(graph) :
                  last_exported[n] = PointwiseMax({seeds[m] : m \in Within(H, n, tag)})
    /\ pc = "done" =>
          LET H == Hops
              seeds == Seeds
          IN  \A n \in keys(graph) :
                  cur_regs(n) = PointwiseMax({seeds[m] : m \in DOMAIN H[n]})

(* C8: the tags handed to write_counters are 0, 1, 2, ... each once and in
   this order; the export tagged t comes before the advance of round t, and
   the round main terminates in has been exported. *)
C8_ExportOncePerRound ==
    /\ export_log = [i \in 1..Len(export_log) |-> i - 1]
    /\ pc = "export" => \A i \in 1..Len(export_log) : export_log[i] # t
    /\ pc \in {"round", "advance", "done"} =>
          export_log # <<>> /\ export_log[Len(export_log)] = t

-----------------------------------------------------------------------------
(* The run in which every export succeeds, computed from the inputs alone:
   the register storage at the top of the loop after k rounds that did not
   converge. *)

RefStart ==
    LET prev == init_counters(prev_counters.order, b)
    IN  clone_counters(prev.counters, prev.heap).heap

(* heap after the round step run on h *)
RefRound(h) == run_round(h, 1, Len(graph.order))

RECURSIVE RefHeap(_)
RefHeap(k) ==
    IF k = 0 THEN RefStart
    ELSE LET pairs == set_values_pairs
         IN  run_set_values(RefRound(RefHeap(k - 1)), pairs, 1, Len(pairs))

(* the round in which that run converges: the first k whose round step
   leaves every current sketch equal to its previous one *)
RECURSIVE RefRounds(_)
RefRounds(k) ==
    IF all_same(RefRound(RefHeap(k))) THEN k ELSE RefRounds(k + 1)

(* C13: whatever write_counters returned, main goes on: at the top of the
   loop and when the tasks are spawned the tables are those of the run in
   which every export succeeds, main terminates in the round that run
   terminates in and with its tables, and main aborts only on the overflow of
   the round counter. *)
C13_SinkFailure ==
    /\ (pc = "export" \/ (pc = "round" /\ \A n \in keys(graph) : task[n] = 1))
          => heap = RefHeap(t)
    /\ pc = "advance" /\ set_done = {} => heap = RefRound(RefHeap(t))
    /\ pc = "done" => heap = RefRound(RefHeap(t)) /\ t = RefRounds(0)
    /\ pc = "panic" => t + 1 = Pow2(CounterBits)

(* main terminated after two advances although the last export failed *)
C13_Witness ==
    /\ pc = "done"
    /\ export_result = "err"
    /\ t >= 2

(* C14: once set_values has copied every pair, and from then on until the
   tasks of the next round write, previous[n] equals current[n] register for
   register, for every node n. *)
C14_Advance ==
    (\/ pc = "advance" /\ set_done = 1..Len(set_values_pairs)
     \/ pc = "export"
     \/ pc = "round" /\ wrote = {})
        => \A n \in keys(graph) : prev_regs(n) = cur_regs(n)

(* an advance has completed that changed a previous sketch, on tables whose
   sketches are not all alike *)
C14_Witness ==
    /\ pc = "export"
    /\ t >= 1
    /\ \E n \in keys(graph) : prev_regs(n) # SeedRegs(n)
    /\ \E n, m \in keys(graph) : cur_regs(n) # cur_regs(m)

(* C15: t starts at 0; a step changes it only at the end of an advance, and
   then raises it by exactly 1; no step lowers it, and the increment never
   aborts main. *)
C15_RoundCounter ==
    /\ t = 0
    /\ [][ /\ t' >= t
           /\ t' # t => (t' = t + 1 /\ pc = "advance")
           /\ (pc = "advance" /\ pc' # "advance") => (pc' = "export" /\ t' = t + 1)
         ]_vars

(* C17: every register of every sketch is between 0 and 65, every sketch
   has m registers, and the index add computes for a node is one of
   0..m-1. *)
C17_RegisterBound ==
    /\ \A a \in DOMAIN heap : \A i \in DOMAIN heap[a] :
          heap[a][i] \in 0..(HashBits + 1)
    /\ \A n \in keys(graph) :
          /\ Len(cur_regs(n)) = get(current_counters, n).m
          /\ Len(prev_regs(n)) = get(prev_counters, n).m
          /\ LowBits(hash_of(n), b) \in 0..(get(prev_counters, n).m - 1)

(* main terminated after an advance, registers holding the rank 65 in both
   tables, one of them put there by a union *)
C17_Witness ==
    /\ pc = "done"
    /\ t >= 1
    /\ \E n \in keys(graph) :
          /\ \E i \in DOMAIN cur_regs(n) : cur_regs(n)[i] = HashBits + 1
          /\ \A i \in DOMAIN SeedRegs(n) : SeedRegs(n)[i] # HashBits + 1
          /\ \E i \in DOMAIN prev_regs(n) : prev_regs(n)[i] = HashBits + 1

(* how many times x is listed in the neighbour list ns *)
Occurrences(ns, x) == Cardinality({k \in 1..Len(ns) : ns[k] = x})

(* C18: every listed neighbour has an entry of its own, y is listed for x as
   many times as x is listed for y, and no step changes graph.nodes. *)
C18_AdjacencySymmetry ==
    /\ [](\A x \in keys(graph) :
            /\ NeighbourSet(x) \subseteq keys(graph)
            /\ \A y \in NeighbourSet(x) :
                  Occurrences(neighbors(x), y) = Occurrences(neighbors(y), x))
    /\ [][graph' = graph]_vars

(* main ran to its end on a graph built from a repeated edge *)
C18_Witness ==
    /\ pc = "done"
    /\ \E x, y \in keys(graph) :
          /\ x # y
          /\ Occurrences(neighbors(x), y) >= 2

(* C19: every node of graph.nodes and every neighbour listed in it has a
   sketch in the previous and in the current table, and no lookup of the
   round step has aborted main. *)
C19_NoLookupFails ==
    /\ \A n \in keys(graph) : \A m \in {n} \cup NeighbourSet(n) :
          /\ contains_key(prev_counters, m)
          /\ contains_key(current_counters, m)
    /\ pc = "round" =>
          \A n \in keys(graph) : \A k \in 1..Len(neighbors(n)) : task_lookup_ok(n, k)
    /\ pc = "panic" => (set_done = 1..Len(set_values_pairs) /\ set_done # {})

(* a second round is under way in which a node with two neighbours has made
   all its lookups *)
C19_Witness ==
    /\ pc = "round"
    /\ t >= 1
    /\ \E n \in keys(graph) :
          /\ Cardinality(NeighbourSet(n) \ {n}) >= 2
          /\ task[n] > Len(neighbors(n))

(* a call of the public operations has been made and recorded *)
ApiCalled(ops) == lab.phase \in {"api", "stopped"} /\ lab.last.op \in ops

(* C11: a union of a sketch with itself, or with another sketch holding the
   same registers, returns and leaves every register of the receiver as it
   was. *)
C11_UnionIdempotent ==
    (/\ ApiCalled({"union"})
     /\ \/ lab.last.self = lab.last.other
        \/ lab.last.before[lab.last.self] = lab.last.before[lab.last.other])
        => /\ lab.last.outcome = "ok"
           /\ lab.heap[lab.last.self] = lab.last.before[lab.last.self]

(* C12: a union, a set_registers or an == between sketches of different
   precision ends in an error and leaves the registers as they were. *)
C12_PrecisionMismatch ==
    (/\ ApiCalled({"union", "set_registers", "eq"})
     /\ lab.last.p[lab.last.self] # lab.last.p[lab.last.other])
        => /\ lab.last.outcome = "error"
           /\ lab.heap = lab.last.before

(* the number of leading zeros of the high bits of a hash: the HashBits - p
   bits above the p index bits *)
high_leading_zeros(h, p) ==
    LET width == HashBits - p
    IN  IF \A i \in 1..width : h[i] = 0 THEN width
        ELSE (CHOOSE i \in 1..width : h[i] = 1 /\ \A j \in 1..(i - 1) : h[j] = 0) - 1

(* C16: the rank add computes is the number of leading zeros of the high
   bits plus 1, and lies between 1 and 65 - p. *)
C16_RankRange ==
    ApiCalled({"add"}) =>
        LET p == lab.last.p[lab.last.self]
            hash == hash_of(lab.last.value)
        IN  /\ lab.last.rank = high_leading_zeros(hash, p) + 1
            /\ lab.last.rank \in 1..(HashBits + 1 - p)

(* the lock the holder asks for next is free for it: the acquisition goes
   through at once in every library behaviour *)
NextLockFree ==
    /\ pc = "round" =>
          \A n \in keys(graph) :
              task[n] <= Len(neighbors(n)) =>
                  /\ held(n) = {} =>
                        write_outcomes(guards, n, get(current_counters, n).registers)
                            = {"ok"}
                  /\ Cardinality(held(n)) = 1 =>
                        read_outcomes(guards, n,
                            get(prev_counters, neighbors(n)[task[n]]).registers)
                            = {"ok"}
    /\ pc = "check" =>
          \A i \in 1..Len(all_same_pairs) :
              /\ (held(i) = {} /\ \A c \in checked : c[1] # i) =>
                    read_outcomes(guards, i, all_same_pairs[i][1].registers) = {"ok"}
              /\ Cardinality(held(i)) = 1 =>
                    read_outcomes(guards, i, all_same_pairs[i][2].registers) = {"ok"}
    /\ pc = "advance" =>
          \A i \in 1..Len(set_values_pairs) :
              /\ (held(i) = {} /\ i \notin set_done) =>
                    write_outcomes(guards, i, set_values_pairs[i][1].registers) = {"ok"}
              /\ Cardinality(held(i)) = 1 =>
                    read_outcomes(guards, i, set_values_pairs[i][2].registers) = {"ok"}

(* C20: in every interleaving no task of the round step, of all_same or of
   set_values ever finds its lock taken, no lock operation aborts main, and
   every phase that has begun comes to its end. *)
C20_DeadlockFreedom ==
    /\ [](NextLockFree /\ pc # "panic")
    /\ (pc = "round") ~> (pc = "check")
    /\ (pc = "check") ~> (pc \in {"done", "advance"})
    /\ (pc = "advance") ~> (pc = "export")

(* in a second round, on a graph with a self-loop, two tasks hold their
   write guards at once and one of them its read guard as well *)
C20_Witness ==
    /\ pc = "round"
    /\ t >= 1
    /\ \E n \in keys(graph) : n \in NeighbourSet(n)
    /\ \E n, m \in keys(graph) :
          /\ n # m
          /\ Cardinality(held(n)) = 2
          /\ Cardinality(held(m)) = 1

====
